---------------------------- MODULE Spec2Model ----------------------------
(***************************************************************************)
(* Model of pylablib.devices.Agilent.base.IAgilentScope: the data-format   *)
(* negotiation, the waveform-preamble parser, the scaling and the          *)
(* single-channel fast read path, against a SCPI oscilloscope.             *)
(*                                                                         *)
(* The oscilloscope is the environment: it holds the waveform format       *)
(* (:WAV:FORM, :WAV:UNS, :WAV:BYT) and the waveform source (:WAV:SOUR),    *)
(* answers queries from that state, and chooses its preamble reply and     *)
(* its data payload freely.  Every driver method is one action; the        *)
(* commands it sends are recorded, in order, in log.                       *)
(*                                                                         *)
(* Numbers: Python ints are TLA+ integers.  Python floats are modelled in  *)
(* fixed point, as a whole number of tenths; products of two floats are    *)
(* therefore in hundredths.                                                *)
(***************************************************************************)
EXTENDS Integers, Sequences, FiniteSets, TLC

VARIABLES
    dev,        \* the oscilloscope's state: [form, uns, byt, src]
    coerces,    \* whether this oscilloscope may silently keep a setting
    call,       \* the driver method last called, with its arguments
    ret,        \* what that call returned or raised
    log,        \* the commands and queries that call sent, in order
    scope       \* the rest of the oscilloscope's state: per-channel display,
                \* coupling and scale, point count and mode, acquisition

vars == <<dev, coerces, call, ret, log, scope>>

---------------------------------------------------------------------------
(* Bounds of the model.                                                    *)

\* Number of main channels given to the constructor (nchannels).
NChannels == 2
\* Longest element sequence the oscilloscope transfers for one WAV:DATA?.
MaxPts == 3

---------------------------------------------------------------------------
(* Python values.                                                          *)

\* None, where a record field needs a string.
None == "None"

\* DataFormat(size, kind, byteorder); size None is 0.
DataFormat(size, kind, byteorder) ==
    [size |-> size, kind |-> kind, byteorder |-> byteorder]

\* DataFormat(None,"ascii",None), what from_desc("ascii") gives.
AsciiFormat == DataFormat(0, "ascii", None)

\* DataFormat.is_ascii()
is_ascii(fmt) == fmt.kind = "ascii"

\* An outcome of a driver method: the oscilloscope's state after it, the
\* commands it sent, and what it returned ("ok") or which exception it raised.
\* aux records the locals of the method that a caller does not see.
NoAux == [stage |-> "none"]
Outcome(d, l, status, value) ==
    [dev |-> d, log |-> l, status |-> status, value |-> value, aux |-> NoAux]

\* A Python list of the elements of S, of length at most n.
RECURSIVE ListsUpTo(_, _)
ListsUpTo(S, n) ==
    IF n = 0 THEN {<<>>}
    ELSE LET shorter == ListsUpTo(S, n - 1)
         IN  shorter \cup {Append(l, e) : l \in shorter, e \in S}

---------------------------------------------------------------------------
(* The oscilloscope (environment).                                         *)

Channels == 1..NChannels

\* ":WAV:SOUR {}".format(channel) for the main channels "CHAN{}".format(i).
SelectCmd(i) ==
    <<":WAV:SOUR CHAN1", ":WAV:SOUR CHAN2", ":WAV:SOUR CHAN3", ":WAV:SOUR CHAN4">>[i]

DevForms == {"BYTE", "WORD", "ASC"}
DevOrders == {"LSBF", "MSBF"}
DevStates ==
    [form : DevForms, uns : BOOLEAN, byt : DevOrders, src : Channels]

\* The oscilloscope's state after it applies command cmd as written.
DevApply(d, cmd) ==
    CASE cmd = ":WAV:FORM ASCII" -> [d EXCEPT !.form = "ASC"]
      [] cmd = ":WAV:FORM BYTE"  -> [d EXCEPT !.form = "BYTE"]
      [] cmd = ":WAV:FORM WORD"  -> [d EXCEPT !.form = "WORD"]
      [] cmd = ":WAV:UNS 1"      -> [d EXCEPT !.uns = TRUE]
      [] cmd = ":WAV:UNS 0"      -> [d EXCEPT !.uns = FALSE]
      [] cmd = ":WAV:BYT LSBF"   -> [d EXCEPT !.byt = "LSBF"]
      [] cmd = ":WAV:BYT MSBF"   -> [d EXCEPT !.byt = "MSBF"]
      [] cmd \in {SelectCmd(i) : i \in Channels} ->
             [d EXCEPT !.src = CHOOSE i \in Channels : SelectCmd(i) = cmd]
      [] OTHER                   -> d

\* self.write(cmd): an oscilloscope that coerces may keep its old format
\* setting; the selection of an existing channel is always applied.
DevWrite(d, cmd, co) ==
    IF co /\ cmd \notin {SelectCmd(i) : i \in Channels}
    THEN {DevApply(d, cmd), d} ELSE {DevApply(d, cmd)}

\* The states the oscilloscope can be in after the writes cmds, sent in order.
RECURSIVE WriteAll(_, _, _)
WriteAll(ds, cmds, co) ==
    IF cmds = <<>> THEN ds
    ELSE WriteAll(UNION {DevWrite(d, Head(cmds), co) : d \in ds}, Tail(cmds), co)

\* The rest of the oscilloscope's state.  disp, coup and scal are per
\* channel (:CHANn:DISP, :CHANn:COUP, :CHANn:SCAL in tenths of a volt);
\* points and mode are :WAV:POIN and :WAV:POIN:MODE; comp is :ACQ:COMP;
\* trig is the trigger setup (TRIG:EDGE:SOUR, TRIG:LEVEL in tenths of a
\* volt, TRIG:EDGE:COUPL, TRIG:EDGE:SLOPE, TRIG:MODE), its source a main
\* channel or, as -1, -2, -3, an auxiliary one.
PointCounts == {100, 250, 500, 1000, 2000, 5000}
TrigStates ==
    [source : Channels \cup {-1, -2, -3}, level : {0, 15},
     coupling : {"AC", "DC", "LFR"}, slope : {"NEG", "POS", "EITH", "ALT"},
     mode : {"EDGE", "GLIT"}]
ScopeStates ==
    [disp : [Channels -> BOOLEAN], coup : [Channels -> {"AC", "DC"}],
     scal : [Channels -> {1, 5}], points : PointCounts,
     mode : {"NORM", "MAX"}, comp : {0, 50, 99, 100}, trig : TrigStates]
ScopeReset ==
    [disp |-> [c \in Channels |-> TRUE], coup |-> [c \in Channels |-> "DC"],
     scal |-> [c \in Channels |-> 1], points |-> 1000, mode |-> "NORM",
     comp |-> 100,
     trig |-> [source |-> 1, level |-> 0, coupling |-> "DC", slope |-> "POS",
               mode |-> "EDGE"]]

---------------------------------------------------------------------------
(* Data format: get_data_format, set_data_format.                          *)

\* form.startswith("ASC"), for the forms that occur.
StartsWithASC(form) == form \in {"ASC", "ASCII"}
\* form.startswith("WORD"), for the forms that occur.
StartsWithWORD(form) == form = "WORD"

\* The queries get_data_format(form) sends to oscilloscope d, in order.
get_data_format_log(d, form) ==
    LET q1 == IF form = None \/ form = "" THEN <<":WAV:FORM?">> ELSE <<>>
        f  == IF form = None \/ form = "" THEN d.form ELSE form
    IN  IF StartsWithASC(f) THEN q1 ELSE q1 \o <<"WAV:UNS?", ":WAV:BYT?">>

\* The value get_data_format(form) returns on oscilloscope d.
get_data_format(d, form) ==
    LET f      == IF form = None \/ form = "" THEN d.form ELSE form
        size   == IF StartsWithWORD(f) THEN 2 ELSE 1
        kind   == IF d.uns THEN "u" ELSE "i"
        border == IF d.byt = "LSBF" THEN ">" ELSE "<"
    IN  IF StartsWithASC(f) THEN AsciiFormat ELSE DataFormat(size, kind, border)

\* self.default_data_fmt="<i1"
default_data_fmt == DataFormat(1, "i", "<")

\* fmt.size=="1": the size is an int, the literal a str; in Python an int
\* never equals a str.
SizeIsByte(fmt) == FALSE

\* Faulty variant of Unsupported: the element size is not looked at.
Unsupported_KindOnly(fmt) == fmt.kind \notin {"i", "u"}

\* (fmt.kind not in "iu") or (fmt.size not in {1,2})
Unsupported(fmt) == fmt.kind \notin {"i", "u"} \/ fmt.size \notin {1, 2}

\* The writes of set_data_format for a supported descriptor, in order.
set_data_format_writes(fmt) ==
    IF is_ascii(fmt) THEN <<":WAV:FORM ASCII">>
    ELSE <<IF fmt.kind = "u" THEN ":WAV:UNS 1" ELSE ":WAV:UNS 0">>
         \o (IF SizeIsByte(fmt) THEN <<":WAV:FORM BYTE">>
             ELSE <<":WAV:FORM WORD",
                    IF fmt.byteorder = ">" THEN ":WAV:BYT LSBF"
                    ELSE ":WAV:BYT MSBF">>)

\* Faulty variant of set_data_format_result: the requested descriptor is
\* returned on trust.
set_data_format_result_OnTrust(requested, d2) == requested

\* What set_data_format returns once its writes left the oscilloscope in d2.
set_data_format_result(requested, d2) == get_data_format(d2, None)

\* The argument fmt="default".
DefaultDesc == DataFormat(0, "default", None)

\* set_data_format(fmt) on oscilloscope d: its outcomes.
set_data_format(d, co, desc) ==
    LET fmt == IF desc = DefaultDesc THEN default_data_fmt ELSE desc
    IN  IF ~is_ascii(fmt) /\ Unsupported(fmt)
        THEN {Outcome(d, <<>>, "ValueError", None)}
        ELSE {Outcome(d2,
                      set_data_format_writes(fmt) \o get_data_format_log(d2, None),
                      "ok", set_data_format_result(fmt, d2)) :
              d2 \in WriteAll({d}, set_data_format_writes(fmt), co)}

---------------------------------------------------------------------------
(* Python's int() and float() on a reply field.  A field is the sequence   *)
(* of its characters.  The grammar covered: an optional sign, digits, and  *)
(* for float() an optional point followed by at most one digit.            *)

DigitChars == <<"0", "1", "2", "3", "4", "5", "6", "7", "8", "9">>
IsDigit(c) == \E k \in 1..10 : DigitChars[k] = c
DigitVal(c) == (CHOOSE k \in 1..10 : DigitChars[k] = c) - 1

AllDigits(s) == \A k \in 1..Len(s) : IsDigit(s[k])

RECURSIVE NatOf(_)
NatOf(s) ==
    IF s = <<>> THEN 0
    ELSE NatOf(SubSeq(s, 1, Len(s) - 1)) * 10 + DigitVal(s[Len(s)])

HasSign(tok) == Len(tok) > 0 /\ tok[1] \in {"-", "+"}
Unsigned(tok) == IF HasSign(tok) THEN Tail(tok) ELSE tok
SignOf(tok) == IF HasSign(tok) /\ tok[1] = "-" THEN -1 ELSE 1

\* int(tok) does not raise ValueError.
IntOk(tok) == Len(Unsigned(tok)) > 0 /\ AllDigits(Unsigned(tok))
\* int(tok)
IntOf(tok) == SignOf(tok) * NatOf(Unsigned(tok))

\* The place of the decimal point in s, or 0.
PointAt(s) == IF \E k \in 1..Len(s) : s[k] = "."
              THEN CHOOSE k \in 1..Len(s) : s[k] = "." ELSE 0
WholePart(s) == IF PointAt(s) = 0 THEN s ELSE SubSeq(s, 1, PointAt(s) - 1)
FracPart(s) == IF PointAt(s) = 0 THEN <<>> ELSE SubSeq(s, PointAt(s) + 1, Len(s))

\* float(tok) does not raise ValueError.
FloatOk(tok) ==
    LET u == Unsigned(tok)
    IN  /\ AllDigits(WholePart(u)) /\ AllDigits(FracPart(u))
        /\ Len(WholePart(u)) + Len(FracPart(u)) > 0
        /\ Len(FracPart(u)) <= 1
\* float(tok), in tenths.
FloatOf(tok) ==
    LET u == Unsigned(tok)
    IN  SignOf(tok) * (NatOf(WholePart(u)) * 10 + NatOf(FracPart(u)))

---------------------------------------------------------------------------
(* Preamble parsing: _build_wfmpre.  data is the reply split on ";", so    *)
(* data[k] here is Python's data[k-1].                                     *)

\* wfmpre["fmt"]=('BYTE','WORD','','ASCII')
FmtTable == <<"BYTE", "WORD", "", "ASCII">>
\* wfmpre["type"]=('NORM','PEAK','AVER','HRES')
TypeTable == <<"NORM", "PEAK", "AVER", "HRES">>

\* t[i] on a 4-tuple does not raise IndexError (a negative index counts
\* from the end).
TupleIndexOk(i) == i \in -4..3
\* t[i] on a 4-tuple.
TupleAt(t, i) == IF i >= 0 THEN t[i + 1] ELSE t[4 + i + 1]

\* Faulty variant of TooShort: the bound is off by one.
TooShort_OffByOne(data) == Len(data) < 9

\* len(data)<10
TooShort(data) == Len(data) < 10

\* The field reads of _build_wfmpre in the order Python evaluates them:
\* the field read and the conversion applied to it.
BuildSteps ==
    << [pos |-> 1, conv |-> "index"], [pos |-> 2, conv |-> "index"],
       [pos |-> 3, conv |-> "int"],   [pos |-> 4, conv |-> "int"],
       [pos |-> 6, conv |-> "float"], [pos |-> 5, conv |-> "float"],
       [pos |-> 7, conv |-> "int"],   [pos |-> 8, conv |-> "float"],
       [pos |-> 9, conv |-> "float"], [pos |-> 10, conv |-> "float"] >>

\* The exception one field read raises, or "ok".
StepStatus(data, step) ==
    IF step.pos > Len(data) THEN "IndexError"
    ELSE LET tok == data[step.pos]
         IN  CASE step.conv = "float" ->
                    IF FloatOk(tok) THEN "ok" ELSE "ValueError"
               [] step.conv = "int" ->
                    IF IntOk(tok) THEN "ok" ELSE "ValueError"
               [] OTHER ->
                    IF ~IntOk(tok) THEN "ValueError"
                    ELSE IF ~TupleIndexOk(IntOf(tok)) THEN "IndexError"
                    ELSE "ok"

\* The first field read, from the k-th on, that raises; 0 when none does.
RECURSIVE FirstFailure(_, _)
FirstFailure(data, k) ==
    IF k > Len(BuildSteps) THEN 0
    ELSE IF StepStatus(data, BuildSteps[k]) # "ok" THEN k
    ELSE FirstFailure(data, k + 1)

\* Faulty variant of wfmpre_dict: x-increment and x-zero are read from each
\* other's position.
wfmpre_dict_SwappedX(data, fmt) ==
    [fmt   |-> fmt,
     type  |-> TupleAt(TypeTable, IntOf(data[2])),
     pts   |-> IntOf(data[3]),
     count |-> IntOf(data[4]),
     xzero |-> FloatOf(data[5]),
     xincr |-> FloatOf(data[6]),
     ptoff |-> IntOf(data[7]),
     ymult |-> FloatOf(data[8]),
     yzero |-> FloatOf(data[9]),
     yoff  |-> FloatOf(data[10])]

\* The dictionary _build_wfmpre fills, with fmt the format it obtained.
wfmpre_dict(data, fmt) ==
    [fmt   |-> fmt,
     type  |-> TupleAt(TypeTable, IntOf(data[2])),
     pts   |-> IntOf(data[3]),
     count |-> IntOf(data[4]),
     xzero |-> FloatOf(data[6]),
     xincr |-> FloatOf(data[5]),
     ptoff |-> IntOf(data[7]),
     ymult |-> FloatOf(data[8]),
     yzero |-> FloatOf(data[9]),
     yoff  |-> FloatOf(data[10])]

\* _build_wfmpre(data) on oscilloscope d: its outcome.  The format is
\* obtained by get_data_format(form=...), which queries the oscilloscope.
\* int(), float() and the tuple lookups are not guarded: what they raise
\* (ValueError, IndexError) is what _build_wfmpre raises.
build_wfmpre(d, data) ==
    IF TooShort(data) THEN Outcome(d, <<>>, "AgilentError", None)
    ELSE LET k    == FirstFailure(data, 1)
             form == TupleAt(FmtTable, IntOf(data[1]))
         IN  IF k = 1
             THEN Outcome(d, <<>>,
                          StepStatus(data, BuildSteps[1]), None)
             ELSE IF k > 1
             THEN Outcome(d, get_data_format_log(d, form),
                          StepStatus(data, BuildSteps[k]), None)
             ELSE Outcome(d, get_data_format_log(d, form), "ok",
                          wfmpre_dict(data, get_data_format(d, form)))

---------------------------------------------------------------------------
(* Scaling: _scale_data.  data is the decoded element sequence; data[k]    *)
(* here is Python's data[k-1].  A row of the result is <<x, y>> with x in  *)
(* tenths and y in hundredths.                                             *)

\* (np.arange(len(data))-wfmpre["ptoff"])*wfmpre["xincr"]+wfmpre["xzero"]
xpts(i, wfmpre) == (i - wfmpre.ptoff) * wfmpre.xincr + wfmpre.xzero

\* Faulty variant of ypts: ascii values are scaled like binary ones.
ypts_AlwaysScaled(raw, wfmpre) ==
    (raw * 10 - wfmpre.yoff) * wfmpre.ymult + wfmpre.yzero * 10

\* [float(x) for x in data], or (data-yoff)*ymult+yzero
ypts(raw, wfmpre) ==
    IF is_ascii(wfmpre.fmt) THEN raw * 100
    ELSE (raw * 10 - wfmpre.yoff) * wfmpre.ymult + wfmpre.yzero * 10

\* np.column_stack((xpts,ypts))
scale_data(data, wfmpre) ==
    [k \in 1..Len(data) |-> <<xpts(k - 1, wfmpre), ypts(data[k], wfmpre)>>]

---------------------------------------------------------------------------
(* get_wfmpre(channel=None, enable=False): no channel change, no enable.   *)

\* data=self.ask(":WAV:PRE?").split(";"); return self._build_wfmpre(data)
get_wfmpre(d, reply) ==
    LET b == build_wfmpre(d, reply)
    IN  Outcome(d, <<":WAV:PRE?">> \o b.log, b.status, b.value)

---------------------------------------------------------------------------
(* The single-channel fast path: _read_sweep_fast.  The argument wfmpre is *)
(* <<>> for None and <<p>> for a supplied preamble p.                      *)

\* The transport read the fast path makes for preamble p.
ReadCall(p) ==
    IF is_ascii(p.fmt) THEN "read(raw)" ELSE "read_binary_array_data()"

\* The format the fast path hands to parse_array_data for preamble p, on an
\* oscilloscope that is in state d when the data are read.
DecodeFormat(p, d) == p.fmt

\* Faulty variant of LengthMismatch: only a payload that is too long is
\* refused.
LengthMismatch_OnlyLonger(trace, p) == Len(trace) > p.pts

\* len(trace)!=wfmpre["pts"]
LengthMismatch(trace, p) == Len(trace) # p.pts

\* The tail of the fast path, from the data query on, with preamble p in
\* use; trace is what parse_array_data made of the payload.
read_data(d, l, p, trace) ==
    LET l2 == l \o <<"WAV:DATA?", ReadCall(p)>>
        a  == [stage |-> "data", wfmpre |-> p, decode |-> DecodeFormat(p, d),
               trace |-> trace]
    IN  IF LengthMismatch(trace, p)
        THEN [Outcome(d, l2, "AgilentError", None) EXCEPT !.aux = a]
        ELSE [Outcome(d, l2, "ok", scale_data(trace, p)) EXCEPT !.aux = a]


\* The oscilloscope's state when the data are read, given its state d when
\* the preamble was obtained: the front panel may have changed the format.
Drift(d) ==
    {d, [d EXCEPT !.form = IF d.form = "WORD" THEN "BYTE" ELSE "WORD",
                  !.uns = ~d.uns,
                  !.byt = IF d.byt = "LSBF" THEN "MSBF" ELSE "LSBF"]}

\* _read_sweep_fast(channel, wfmpre) on oscilloscope d: its outcomes, over
\* the preamble replies and the decoded payloads the oscilloscope may give.
read_sweep_fast(d, co, ch, wfmpre, replies, traces) ==
    UNION {
      LET sel == <<SelectCmd(ch)>>
          got == IF wfmpre # <<>> THEN {Outcome(d1, <<>>, "ok", wfmpre[1])}
                 ELSE {get_wfmpre(d1, r) : r \in replies}
      IN  UNION {
            IF g.status # "ok"
            THEN {Outcome(d1, sel \o g.log, g.status, None)}
            ELSE {read_data(d2, sel \o g.log, g.value, t) :
                  d2 \in Drift(d1), t \in traces}
            : g \in got }
      : d1 \in DevWrite(d, SelectCmd(ch), co) }

---------------------------------------------------------------------------
(* The inputs the model draws from.                                        *)

\* Fields 3..9 of a preamble reply (count, xincr, xzero, ptoff, ymult,
\* yzero, yoff), every position with a value of its own.
ReplyTails ==
    { << <<"1">>, <<"2">>, <<"0", ".", "5">>, <<"-", "1">>,
         <<"1", ".", "5">>, <<"3">>, <<"4">> >>,
      << <<"1", "2">>, <<"0", ".", "5">>, <<"-", "2">>, <<"0">>,
         <<"2">>, <<"-", "0", ".", "5">>, <<"1">> >> }

\* Well-formed replies: format code, type code, point count, the rest.
GoodReplies ==
    { <<fc, tc, pts>> \o tail :
        fc \in {<<"0">>, <<"1">>, <<"2">>, <<"3">>},
        tc \in {<<"0">>, <<"3">>},
        pts \in {<<"2">>, <<"3">>},
        tail \in ReplyTails }

\* Field contents that some conversion or lookup refuses.
OddFields == { <<"x">>, <<>>, <<"4">>, <<"-", "1">>, <<"1", ".", "5">> }

\* Replies of any field count and with one field replaced.
Replies ==
    GoodReplies
    \cup { [r EXCEPT ![k] = f] : r \in GoodReplies, k \in 1..10, f \in OddFields }
    \cup { SubSeq(r, 1, n) : r \in GoodReplies, n \in 0..9 }
    \cup { Append(r, <<"0">>) : r \in GoodReplies }

\* What the oscilloscope may answer to :WAV:PRE? during a read.
DeviceReplies ==
    { r \in GoodReplies : r[2] = <<"0">> /\ r[4] = <<"1">> }
    \cup { [r EXCEPT ![1] = <<"4">>] : r \in {rr \in GoodReplies : rr[4] = <<"1", "2">>
                                                 /\ rr[2] = <<"0">> /\ rr[3] = <<"2">>
                                                 /\ rr[1] = <<"0">>} }
    \cup { SubSeq(r, 1, 9) : r \in {rr \in GoodReplies : rr[4] = <<"1", "2">>
                                        /\ rr[2] = <<"0">> /\ rr[3] = <<"2">>
                                        /\ rr[1] = <<"0">>} }

\* Preambles a caller holds from an earlier get_wfmpre.
Preambles ==
    { get_wfmpre(d, r).value :
        d \in {x \in DevStates : x.src = 1}, r \in {rr \in DeviceReplies :
                   Len(rr) = 10 /\ rr[1] \in {<<"0">>, <<"1">>, <<"3">>}} }

\* Decoded elements of a payload.
RawValues == {1, 3}
Traces == ListsUpTo(RawValues, MaxPts)

\* Format descriptors a caller may ask for.
Descs ==
    {AsciiFormat, DefaultDesc}
    \cup { DataFormat(size, kind, bo) :
             size \in {1, 2, 4}, kind \in {"i", "u", "f"}, bo \in {"<", ">"} }

---------------------------------------------------------------------------
(* The driver's methods as actions.                                        *)

Idle == [name |-> "idle"]
NoRet == [status |-> "none", value |-> None, aux |-> NoAux]

\* After construction: the oscilloscope is in whatever state it was left.
\* The display, coupling, point and acquisition state plays no part in the
\* methods of this specification and starts as after a reset.
Init ==
    /\ dev \in DevStates
    /\ coerces \in BOOLEAN
    /\ call = Idle
    /\ ret = NoRet
    /\ log = <<>>
    /\ scope = ScopeReset

\* The call ends in outcome o.
Finish(o) ==
    /\ dev' = o.dev
    /\ log' = o.log
    /\ ret' = [status |-> o.status, value |-> o.value, aux |-> o.aux]
    /\ UNCHANGED <<coerces, scope>>

SetDataFormat ==
    /\ call = Idle
    /\ \E desc \in Descs :
         /\ call' = [name |-> "set_data_format", fmt |-> desc, before |-> dev]
         /\ \E o \in set_data_format(dev, coerces, desc) : Finish(o)

GetDataFormat ==
    /\ call = Idle
    /\ call' = [name |-> "get_data_format"]
    /\ Finish(Outcome(dev, get_data_format_log(dev, None), "ok",
                      get_data_format(dev, None)))

BuildWfmpre ==
    /\ call = Idle
    /\ \E data \in Replies :
         /\ call' = [name |-> "_build_wfmpre", data |-> data]
         /\ Finish(build_wfmpre(dev, data))

ScaleData ==
    /\ call = Idle
    /\ \E p \in Preambles, t \in Traces :
         /\ call' = [name |-> "_scale_data", data |-> t, wfmpre |-> p]
         /\ Finish(Outcome(dev, <<>>, "ok", scale_data(t, p)))

ReadSweepFast ==
    /\ call = Idle
    /\ \E ch \in Channels, w \in {<<>>} \cup {<<p>> : p \in Preambles} :
         /\ call' = [name |-> "_read_sweep_fast", channel |-> ch, wfmpre |-> w]
         /\ \E o \in read_sweep_fast(dev, coerces, ch, w, DeviceReplies, Traces) :
              Finish(o)

\* Somebody changes the format at the oscilloscope's front panel.
FrontPanel ==
    /\ call = Idle
    /\ dev' \in Drift(dev) \ {dev}
    /\ UNCHANGED <<coerces, call, ret, log, scope>>

\* The caller takes the result; the driver is ready for the next call.
Return ==
    /\ call # Idle
    /\ call' = Idle
    /\ ret' = NoRet
    /\ log' = <<>>
    /\ UNCHANGED <<dev, coerces, scope>>

Next ==
    \/ SetDataFormat
    \/ GetDataFormat
    \/ BuildWfmpre
    \/ ScaleData
    \/ ReadSweepFast
    \/ FrontPanel
    \/ Return

Spec == Init /\ [][Next]_vars

---------------------------------------------------------------------------
(* Channel ids and their validation.  A main channel is its integer; the   *)
(* auxiliary channel named AuxNames[k] is written -k; 0 and NChannels+1    *)
(* are integers that name no channel.                                      *)

\* _aux_channels=['ext', 'line', 'wgen']
AuxNames == <<"ext", "line", "wgen">>
AuxChannels == {-k : k \in 1..Len(AuxNames)}
ChannelIds == Channels \cup AuxChannels \cup {0, NChannels + 1}

\* self._main_channels_idx=list(range(1,nchannels+1))
main_channels_idx == [k \in 1..NChannels |-> k]

\* "chan{}".format(i), in the upper case the oscilloscope uses.
ChanStr(i) == <<"CHAN1", "CHAN2", "CHAN3", "CHAN4">>[i]

\* The parameter class "input_channel" accepts ch: the main channels.
InputChannelOk(ch) == ch \in Channels
\* The parameter class "channel" accepts ch: main and auxiliary channels.
ChannelOk(ch) == ch \in Channels \cup AuxChannels

\* An outcome of a method that works on scope: as Outcome, with the state
\* sc of the rest of the oscilloscope in place of dev.
ScopeOutcome(sc, l, status, value) ==
    [scope |-> sc, log |-> l, status |-> status, value |-> value]

---------------------------------------------------------------------------
(* Per-channel methods behind muxchannel: get_vertical_span, set_coupling. *)

\* get_vertical_span(channel) for one channel id.
get_vertical_span(sc, ch) ==
    IF ~InputChannelOk(ch) THEN ScopeOutcome(sc, <<>>, "ValidationError", None)
    ELSE ScopeOutcome(sc, <<":" \o ChanStr(ch) \o ":SCAL?">>, "ok",
                      sc.scal[ch] * 10)

\* _p_coupling=EnumParameterClass("coupling",["ac","dc"],value_case="upper"):
\* the oscilloscope's token of a coupling name, and the name of a token.
CouplingToken(c) == IF c = "ac" THEN "AC" ELSE "DC"
CouplingName(tok) == IF tok = "AC" THEN "ac" ELSE "dc"

\* get_coupling(channel) for one channel id.
get_coupling(sc, ch) ==
    IF ~InputChannelOk(ch) THEN ScopeOutcome(sc, <<>>, "ValidationError", None)
    ELSE ScopeOutcome(sc, <<":" \o ChanStr(ch) \o ":COUP?">>, "ok",
                      CouplingName(sc.coup[ch]))

\* set_coupling(channel, coupling) for one channel id: only the channel is
\* validated; the coupling is written as given.
set_coupling(sc, ch, coupling) ==
    IF ~InputChannelOk(ch) THEN ScopeOutcome(sc, <<>>, "ValidationError", None)
    ELSE LET sc2 == [sc EXCEPT !.coup[ch] = CouplingToken(coupling)]
             g == get_coupling(sc2, ch)
         IN  ScopeOutcome(sc2,
                          <<":" \o ChanStr(ch) \o ":COUP " \o coupling>> \o g.log,
                          g.status, g.value)

\* The per-channel method op on channel ch; arg is its further argument.
ChannelMethod(op, sc, ch, arg) ==
    IF op = "set_coupling" THEN set_coupling(sc, ch, arg)
    ELSE get_vertical_span(sc, ch)

---------------------------------------------------------------------------
(* muxchannel: the method multiplexed over its channel argument, which is  *)
(* [kind |-> "all"], [kind |-> "one", id |-> c] or [kind |-> "list",       *)
(* ids |-> <<..>>].  general.muxcall is modelled from the design document: *)
(* one call per id, in order, a list of results, and with partial-failure  *)
(* mode a failure is captured in the result and the remaining ids are      *)
(* still called.                                                           *)

\* Faulty variant of ch_func: the auxiliary channels are listed as well.
ch_func_WithAux == main_channels_idx \o <<-1, -2, -3>>

\* ch_func: return list(self._main_channels_idx)
ch_func == main_channels_idx

\* Faulty variant of allow_partial: the flag is not passed.
allow_partial_Off == FALSE

\* muxchannel passes allow_partial=True to general.muxcall.
allow_partial == TRUE

\* special_args={"all":ch_func}
ExpandChannels(arg) == IF arg.kind = "all" THEN ch_func ELSE arg.ids

\* The calls of muxcall over ids, from state acc on.  acc.status is "ok"
\* until a failure is propagated.
RECURSIVE MuxCalls(_, _, _, _, _)
MuxCalls(op, ids, arg, partial, acc) ==
    IF ids = <<>> \/ acc.status # "ok" THEN acc
    ELSE LET r == ChannelMethod(op, acc.scope, Head(ids), arg)
             entry == IF r.status = "ok"
                      THEN [channel |-> Head(ids), ok |-> TRUE, value |-> r.value]
                      ELSE [channel |-> Head(ids), ok |-> FALSE, error |-> r.status]
         IN  IF r.status # "ok" /\ ~partial
             THEN [acc EXCEPT !.log = acc.log \o r.log, !.status = r.status]
             ELSE MuxCalls(op, Tail(ids), arg, partial,
                           [scope |-> r.scope, log |-> acc.log \o r.log,
                            status |-> "ok",
                            results |-> Append(acc.results, entry)])

\* The multiplexed method: a single id is the plain call; "all" or a list
\* gives the list of the per-channel results.
muxcall(op, sc, channel, arg) ==
    IF channel.kind = "one" THEN ChannelMethod(op, sc, channel.id, arg)
    ELSE LET m == MuxCalls(op, ExpandChannels(channel), arg, allow_partial,
                           [scope |-> sc, log |-> <<>>, status |-> "ok",
                            results |-> <<>>])
         IN  IF m.status = "ok" THEN ScopeOutcome(m.scope, m.log, "ok", m.results)
             ELSE ScopeOutcome(m.scope, m.log, m.status, None)

---------------------------------------------------------------------------
(* The multiplexed channel settings as a state machine of their own: the   *)
(* vertical scales and couplings of the channels vary, the rest of the     *)
(* oscilloscope stays as after a reset.                                    *)

\* Channel arguments of a multiplexed call: "all", one id, or a list of two
\* or three ids.
ListIds == Channels \cup {0}
ChannelLists ==
    {<<a, b>> : a \in ListIds, b \in ListIds}
        \cup {<<a, b, c>> : a \in ListIds, b \in ListIds, c \in ListIds}
ChannelArgs ==
    {[kind |-> "all"]} \cup {[kind |-> "one", id |-> c] : c \in ChannelIds}
        \cup {[kind |-> "list", ids |-> l] : l \in ChannelLists}

\* The call ends in outcome o of a method that works on scope.
FinishScope(o) ==
    /\ scope' = o.scope
    /\ log' = o.log
    /\ ret' = [status |-> o.status, value |-> o.value, aux |-> NoAux]
    /\ UNCHANGED <<dev, coerces>>

GetVerticalSpan ==
    /\ call = Idle
    /\ \E ch \in ChannelArgs :
         /\ call' = [name |-> "get_vertical_span", channel |-> ch, before |-> scope]
         /\ FinishScope(muxcall("get_vertical_span", scope, ch, None))

SetCoupling ==
    /\ call = Idle
    /\ \E ch \in ChannelArgs, coupling \in {"ac", "dc"} :
         /\ call' = [name |-> "set_coupling", channel |-> ch,
                     coupling |-> coupling, before |-> scope]
         /\ FinishScope(muxcall("set_coupling", scope, ch, coupling))

\* The vertical scale of a channel is turned at the front panel.
TurnScale ==
    /\ call = Idle
    /\ \E c \in Channels, v \in {1, 5} :
         /\ scope.scal[c] # v
         /\ scope' = [scope EXCEPT !.scal[c] = v]
    /\ UNCHANGED <<dev, coerces, call, ret, log>>

InitMux ==
    /\ dev \in {d \in DevStates : d.form = "BYTE" /\ d.src = 1}
    /\ coerces = FALSE
    /\ call = Idle
    /\ ret = NoRet
    /\ log = <<>>
    /\ scope = ScopeReset

NextMux ==
    \/ GetVerticalSpan
    \/ SetCoupling
    \/ TurnScale
    \/ Return

SpecMux == InitMux /\ [][NextMux]_vars

---------------------------------------------------------------------------
(* Channel selection and the preamble of a channel or a list of channels.  *)

\* An outcome of a method that works on both parts of the oscilloscope.
BatchOutcome(d, sc, l, status, value) ==
    [dev |-> d, scope |-> sc, log |-> l, status |-> status, value |-> value,
     aux |-> NoAux]

\* select_channel(channel): validated as an input_channel, then
\* self.write(":WAV:SOUR {}") and return self.get_selected_channel().
select_channel(d, ch) ==
    IF ~InputChannelOk(ch) THEN Outcome(d, <<>>, "ValidationError", None)
    ELSE LET d1 == DevApply(d, SelectCmd(ch))
         IN  Outcome(d1, <<SelectCmd(ch), ":WAV:SOUR?">>, "ok", d1.src)

\* ":{}:DISP?".format(channel) and ":{}:DISP" written with True.
DispQuery(c) == ":" \o ChanStr(c) \o ":DISP?"
DispOn(c) == ":" \o ChanStr(c) \o ":DISP 1"
DispOff(c) == ":" \o ChanStr(c) \o ":DISP 0"

\* The enable branch of get_wfmpre: channel=self._get_channel(channel); if
\* not self.is_channel_enabled(channel): self.enable_channel(channel).
\* channel is <<>> for None and <<c>> for a selected main channel c.
ensure_enabled(d, sc, channel) ==
    LET q == IF channel = <<>> THEN <<":WAV:SOUR?">> ELSE <<>>
        c == IF channel = <<>> THEN d.src ELSE channel[1]
    IN  IF sc.disp[c] THEN [scope |-> sc, log |-> q \o <<DispQuery(c)>>]
        ELSE [scope |-> [sc EXCEPT !.disp[c] = TRUE],
              log |-> q \o <<DispQuery(c), DispOn(c), DispQuery(c)>>]

\* get_wfmpre(channel, enable) for channel None (<<>>) or one id (<<c>>).
get_wfmpre_channel(d, sc, channel, enable, reply) ==
    LET s == IF channel = <<>> THEN Outcome(d, <<>>, "ok", None)
             ELSE select_channel(d, channel[1])
    IN  IF s.status # "ok" THEN BatchOutcome(d, sc, s.log, s.status, None)
        ELSE LET en == IF enable THEN ensure_enabled(s.dev, sc, channel)
                       ELSE [scope |-> sc, log |-> <<>>]
                 g  == get_wfmpre(s.dev, reply)
             IN  BatchOutcome(s.dev, en.scope, s.log \o en.log \o g.log,
                              g.status, g.value)

\* A Python dict as a function; d[k]=v.
DictSet(f, k, v) == [x \in DOMAIN f \cup {k} |-> IF x = k THEN v ELSE f[x]]

\* get_wfmpre(channel, enable) for a list: {self._normalize_channel(ch):
\* self.get_wfmpre(ch,enable=enable) for ch in channel}, from acc on.
RECURSIVE get_wfmpre_list(_, _, _, _)
get_wfmpre_list(chans, enable, reply, acc) ==
    IF chans = <<>> \/ acc.status # "ok" THEN acc
    ELSE IF ~ChannelOk(Head(chans))
         THEN [acc EXCEPT !.status = "ValidationError", !.value = None]
         ELSE LET g == get_wfmpre_channel(acc.dev, acc.scope, <<Head(chans)>>,
                                          enable, reply)
              IN  get_wfmpre_list(Tail(chans), enable, reply,
                    BatchOutcome(g.dev, g.scope, acc.log \o g.log, g.status,
                                 IF g.status = "ok"
                                 THEN DictSet(acc.value, Head(chans), g.value)
                                 ELSE None))

---------------------------------------------------------------------------
(* read_multiple_sweeps and read_sweep.  The argument wfmpres is <<>> for  *)
(* None and else a list with <<>> (None) or <<p>> per channel.             *)

\* The outcomes of a fast-path call whose transport read runs into its
\* timeout, given the outcomes os without one: the data query was sent,
\* the backend error is raised as AgilentBackendError.
ReadTimeouts(os) ==
    {[o EXCEPT !.status = "AgilentBackendError", !.value = None] :
       o \in {x \in os : x.aux.stage = "data"}}

\* _read_sweep_fast as it is called: use_parameters validates the channel
\* as an input_channel first; the transport read may time out.
read_sweep_fast_param(d, co, ch, wfmpre, replies, traces) ==
    IF ~InputChannelOk(ch) THEN {Outcome(d, <<>>, "ValidationError", None)}
    ELSE LET os == read_sweep_fast(d, co, ch, wfmpre, replies, traces)
         IN  os \cup ReadTimeouts(os)

\* dict(zip(channels,wfmpres)): a later entry of a channel replaces an
\* earlier one.
ZipDict(channels, wfmpres) ==
    LET n == IF Len(wfmpres) < Len(channels) THEN Len(wfmpres) ELSE Len(channels)
    IN  [c \in {channels[i] : i \in 1..n} |->
           wfmpres[CHOOSE i \in 1..n :
                     channels[i] = c /\ \A j \in (i + 1)..n : channels[j] # c]]

\* Faulty variant of ensure_fmt_channel: the last channel decides.
ensure_fmt_channel_Last(channels) == channels[Len(channels)]

\* pre=wfmpres.get(channels[0],None)
ensure_fmt_channel(channels) == channels[1]

\* fmt=pre["fmt"] if pre else self.default_data_fmt
ensure_fmt_target(channels, W) ==
    LET c == ensure_fmt_channel(channels)
    IN  IF c \in DOMAIN W /\ W[c] # <<>> THEN W[c][1].fmt ELSE default_data_fmt

\* if self.get_data_format()!=DataFormat.from_desc(fmt).to_desc():
\* self.set_data_format(fmt=fmt).  The comparison is between a DataFormat
\* and a descriptor string: it is true when the formats differ, and either
\* way when they are the same.
ensure_fmt_step(d, co, channels, W) ==
    LET fmt == ensure_fmt_target(channels, W)
        ql  == get_data_format_log(d, None)
    IN  (IF get_data_format(d, None) = fmt THEN {Outcome(d, ql, "ok", None)} ELSE {})
        \cup {[o EXCEPT !.log = ql \o o.log] : o \in set_data_format(d, co, fmt)}

\* Faulty variant of batch_enable: the batch fetches with enable=True.
batch_enable_On == TRUE

\* wfmpres[ch]=self.get_wfmpre(ch,enable=False)
batch_enable == FALSE

\* Faulty variant of FetchStep: the preamble is fetched for every channel,
\* supplied or not.
FetchStep_Always(a, ch, replies) ==
    IF a.status # "ok" THEN {a}
    ELSE {[a EXCEPT !.dev = g.dev, !.scope = g.scope, !.log = a.log \o g.log,
                    !.status = g.status,
                    !.W = IF g.status = "ok" THEN DictSet(a.W, ch, <<g.value>>)
                          ELSE a.W]
          : g \in {get_wfmpre_channel(a.dev, a.scope, <<ch>>, batch_enable, r)
                   : r \in replies}}

\* if ch not in wfmpres: wfmpres[ch]=self.get_wfmpre(ch,enable=False), for
\* the batch in progress a.
FetchStep(a, ch, replies) ==
    IF a.status # "ok" \/ ch \in DOMAIN a.W THEN {a}
    ELSE {[a EXCEPT !.dev = g.dev, !.scope = g.scope, !.log = a.log \o g.log,
                    !.status = g.status,
                    !.W = IF g.status = "ok" THEN DictSet(a.W, ch, <<g.value>>)
                          ELSE a.W]
          : g \in {get_wfmpre_channel(a.dev, a.scope, <<ch>>, batch_enable, r)
                   : r \in replies}}

\* for ch in channels: ..., over the batches in progress accs.
RECURSIVE BatchFetch(_, _, _)
BatchFetch(accs, chans, replies) ==
    IF chans = <<>> THEN accs
    ELSE BatchFetch(UNION {FetchStep(a, Head(chans), replies) : a \in accs},
                    Tail(chans), replies)

\* Faulty variant of ReadOrder: the channels are read last to first.
RECURSIVE ReadOrder_Reversed(_)
ReadOrder_Reversed(channels) ==
    IF channels = <<>> THEN <<>>
    ELSE Append(ReadOrder_Reversed(Tail(channels)), Head(channels))

\* sweeps=[... for ch in channels]: the order in which channels are read.
ReadOrder(channels) == channels

\* Faulty variant of ReadStep: after a failed read the batch goes on with
\* the next channel and raises the first error at the end.
ReadStep_KeepGoing(a, ch, co, replies, traces) ==
    IF a.status # "ok" /\ a.reads = <<>> THEN {a} ELSE
    {[a EXCEPT !.dev = o.dev, !.log = a.log \o o.log,
               !.status = IF a.status # "ok" THEN a.status ELSE o.status,
               !.sweeps = IF o.status = "ok" THEN Append(a.sweeps, o.value)
                          ELSE a.sweeps,
               !.reads = IF o.aux.stage = "data"
                         THEN Append(a.reads,
                                     [channel |-> ch, src |-> o.dev.src,
                                      trace |-> o.aux.trace,
                                      wfmpre |-> o.aux.wfmpre,
                                      status |-> o.status])
                         ELSE a.reads]
     : o \in read_sweep_fast_param(a.dev, co, ch, a.W[ch], replies, traces)}

\* self._read_sweep_fast(ch,wfmpres[ch],timeout=timeout) for the batch in
\* progress a.  reads records, for every data query, the channel read, the
\* source selected at the query, the decoded payload, the preamble used
\* and how the read ended.
ReadStep(a, ch, co, replies, traces) ==
    IF a.status # "ok" THEN {a}
    ELSE {[a EXCEPT !.dev = o.dev, !.log = a.log \o o.log, !.status = o.status,
                    !.sweeps = IF o.status = "ok" THEN Append(a.sweeps, o.value)
                               ELSE a.sweeps,
                    !.reads = IF o.aux.stage = "data"
                              THEN Append(a.reads,
                                          [channel |-> ch, src |-> o.dev.src,
                                           trace |-> o.aux.trace,
                                           wfmpre |-> o.aux.wfmpre,
                                           status |-> o.status])
                              ELSE a.reads]
          : o \in read_sweep_fast_param(a.dev, co, ch, a.W[ch], replies, traces)}

\* sweeps=[... for ch in channels], over the batches in progress accs.
RECURSIVE BatchRead(_, _, _, _, _)
BatchRead(accs, chans, co, replies, traces) ==
    IF chans = <<>> THEN accs
    ELSE BatchRead(UNION {ReadStep(a, Head(chans), co, replies, traces) : a \in accs},
                   Tail(chans), co, replies, traces)

\* The outcome of a batch in state a; reads is kept beside the result.
BatchResult(d, sc, l, status, value, reads) ==
    [BatchOutcome(d, sc, l, status, value)
     EXCEPT !.aux = [stage |-> "batch", reads |-> reads]]

\* return (sweeps,wfmpres) if return_wfmpres else sweeps
batch_value(sweeps, W, return_wfmpres) ==
    IF return_wfmpres THEN <<sweeps, W>> ELSE sweeps

\* read_multiple_sweeps(channels, wfmpres, ensure_fmt, return_wfmpres): its
\* outcomes.
read_multiple_sweeps(d, sc, co, channels, wfmpres, ensure_fmt, return_wfmpres, replies, traces) ==
    IF channels = <<>> THEN {BatchResult(d, sc, <<>>, "ok", <<>>, <<>>)}
    ELSE IF \E i \in 1..Len(channels) : ~ChannelOk(channels[i])
    THEN {BatchResult(d, sc, <<>>, "ValidationError", None, <<>>)}
    ELSE LET W == ZipDict(channels, wfmpres)
             neg == IF ensure_fmt THEN ensure_fmt_step(d, co, channels, W)
                    ELSE {Outcome(d, <<>>, "ok", None)}
             start == {[dev |-> o.dev, scope |-> sc, log |-> o.log,
                        status |-> o.status, W |-> W, sweeps |-> <<>>,
                        reads |-> <<>>] : o \in neg}
             fetched == BatchFetch(start, channels, replies)
             read == BatchRead(fetched, ReadOrder(channels), co, replies, traces)
         IN  {BatchResult(a.dev, a.scope, a.log, a.status,
                          IF a.status = "ok"
                          THEN batch_value(a.sweeps, a.W, return_wfmpres)
                          ELSE None,
                          a.reads)
              : a \in read}

\* read_sweep(channel, wfmpre, ensure_fmt): return
\* self.read_multiple_sweeps([channel],[wfmpre],ensure_fmt=ensure_fmt)[0]
read_sweep(d, sc, co, channel, wfmpre, ensure_fmt, replies, traces) ==
    {IF o.status = "ok" THEN [o EXCEPT !.value = o.value[1]] ELSE o :
       o \in read_multiple_sweeps(d, sc, co, <<channel>>, <<wfmpre>>,
                                  ensure_fmt, FALSE, replies, traces)}

---------------------------------------------------------------------------
(* Channel selection, preambles and batch reads as a state machine.        *)

\* Channel ids a caller passes: the main channels, an integer that names
\* no channel, and the auxiliary channel 'ext'.
BatchIds == Channels \cup {0} \cup {-1}
BatchChannelLists ==
    {<<>>} \cup {<<a>> : a \in BatchIds} \cup {<<a, b>> : a \in BatchIds, b \in BatchIds}

\* What the oscilloscope answers to :WAV:PRE? during a batch: a WORD
\* preamble of two points, or a reply that lacks its last field.
BatchReplies ==
    {r \in DeviceReplies : r[3] = <<"2">> /\ (Len(r) = 10 => r[1] = <<"1">>)}

\* Preambles a caller holds: of a WORD transfer and of an ASCII transfer.
BatchPreambles ==
    {p \in Preambles : p.pts = 2 /\ (is_ascii(p.fmt) \/ p.fmt = DataFormat(2, "u", ">"))}

\* Decoded payloads of a batch.
BatchTraces == {<<1>>, <<1, 3>>}

\* The argument wfmpres for n channels: None, or a list with an entry for
\* every channel or for the first one only.
WfmpreEntries == {<<>>} \cup {<<p>> : p \in BatchPreambles}
WfmpreArgs(n) ==
    IF n = 2 THEN {<<>>} \cup {<<v>> : v \in WfmpreEntries}
                  \cup {<<v, w>> : v \in WfmpreEntries, w \in WfmpreEntries}
    ELSE IF n = 1 THEN {<<>>} \cup {<<v>> : v \in WfmpreEntries}
    ELSE {<<>>}

\* The call ends in outcome o of a method that works on both parts.
FinishBatch(o) ==
    /\ dev' = o.dev
    /\ scope' = o.scope
    /\ log' = o.log
    /\ ret' = [status |-> o.status, value |-> o.value, aux |-> o.aux]
    /\ UNCHANGED coerces

Before == [dev |-> dev, scope |-> scope]

SelectChannel ==
    /\ call = Idle
    /\ \E ch \in ChannelIds :
         /\ call' = [name |-> "select_channel", channel |-> ch, before |-> Before]
         /\ Finish(select_channel(dev, ch))

GetWfmpre ==
    /\ call = Idle
    /\ \E channel \in {<<>>} \cup {<<c>> : c \in BatchIds}, enable \in BOOLEAN,
          reply \in BatchReplies :
         /\ call' = [name |-> "get_wfmpre", channel |-> channel,
                     enable |-> enable, before |-> Before]
         /\ FinishBatch(get_wfmpre_channel(dev, scope, channel, enable, reply))

GetWfmpreList ==
    /\ call = Idle
    /\ \E channels \in BatchChannelLists, enable \in BOOLEAN,
          reply \in BatchReplies :
         /\ call' = [name |-> "get_wfmpre_list", channels |-> channels,
                     enable |-> enable, before |-> Before]
         /\ FinishBatch(get_wfmpre_list(channels, enable, reply,
                                        BatchOutcome(dev, scope, <<>>, "ok", <<>>)))

ReadMultipleSweeps ==
    /\ call = Idle
    /\ \E channels \in BatchChannelLists, ensure_fmt \in BOOLEAN,
          return_wfmpres \in BOOLEAN :
         \E wfmpres \in WfmpreArgs(Len(channels)) :
           /\ call' = [name |-> "read_multiple_sweeps", channels |-> channels,
                       wfmpres |-> wfmpres, ensure_fmt |-> ensure_fmt,
                       return_wfmpres |-> return_wfmpres, before |-> Before]
           /\ \E o \in read_multiple_sweeps(dev, scope, coerces, channels, wfmpres,
                                            ensure_fmt, return_wfmpres,
                                            BatchReplies, BatchTraces) :
                FinishBatch(o)

ReadSweep ==
    /\ call = Idle
    /\ \E channel \in BatchIds, wfmpre \in WfmpreEntries, ensure_fmt \in BOOLEAN :
         /\ call' = [name |-> "read_sweep", channels |-> <<channel>>,
                     wfmpres |-> <<wfmpre>>, ensure_fmt |-> ensure_fmt,
                     before |-> Before]
         /\ \E o \in read_sweep(dev, scope, coerces, channel, wfmpre, ensure_fmt,
                                BatchReplies, BatchTraces) :
              FinishBatch(o)

ReadSweepFastParam ==
    /\ call = Idle
    /\ \E channel \in BatchIds, wfmpre \in WfmpreEntries :
         /\ call' = [name |-> "_read_sweep_fast", channel |-> channel,
                     wfmpre |-> wfmpre, before |-> Before]
         /\ \E o \in read_sweep_fast_param(dev, coerces, channel, wfmpre,
                                           BatchReplies, BatchTraces) :
              Finish(o)

\* The display of the first channel is switched at the front panel.
ToggleDisplay ==
    /\ call = Idle
    /\ scope' = [scope EXCEPT !.disp[1] = ~scope.disp[1]]
    /\ UNCHANGED <<dev, coerces, call, ret, log>>

InitBatch ==
    /\ dev \in {d \in DevStates : d.form = "BYTE" /\ ~d.uns /\ d.byt = "MSBF"}
    /\ coerces = FALSE
    /\ call = Idle
    /\ ret = NoRet
    /\ log = <<>>
    /\ scope = ScopeReset

NextBatch ==
    \/ SelectChannel
    \/ GetWfmpre
    \/ GetWfmpreList
    \/ ReadMultipleSweeps
    \/ ReadSweep
    \/ ReadSweepFastParam
    \/ ToggleDisplay
    \/ Return

SpecBatch == InitBatch /\ [][NextBatch]_vars

---------------------------------------------------------------------------
(* The number of data points and the range of points to read.              *)

\* A non-negative int as written into a command or sent in a reply.
RECURSIVE NatStr(_)
NatStr(n) ==
    IF n < 10 THEN DigitChars[n + 1]
    ELSE NatStr(n \div 10) \o DigitChars[(n % 10) + 1]
IntStr(n) == IF n < 0 THEN "-" \o NatStr(-n) ELSE NatStr(n)

\* get_points_number(kind): return self.ask(":WAV:POIN?","int")
get_points_number(sc) == ScopeOutcome(sc, <<":WAV:POIN?">>, "ok", sc.points)

\* _set_data_resolution(resolution): write :WAV:POIN:MODE, ask it back.
set_data_resolution(sc, resolution) ==
    LET sc2 == [sc EXCEPT !.mode = resolution]
    IN  ScopeOutcome(sc2, <<":WAV:POIN:MODE " \o resolution, ":WAV:POIN:MODE?">>,
                     "ok", sc2.mode)

\* if pts_num<=1E3: "NORM" else: "MAX"
points_mode(pts_num) == IF pts_num <= 1000 THEN "NORM" ELSE "MAX"

\* The point counts the oscilloscope may settle on when :WAV:POIN n is
\* written in state sc: it ignores a count below one, and else takes a
\* count it supports in its mode.
DevicePoints(sc, n) ==
    IF n < 1 THEN {sc.points}
    ELSE {p \in PointCounts : sc.mode = "NORM" => p <= 1000}

\* set_points_number(pts_num): its outcomes.
set_points_number(sc, pts_num) ==
    LET m == set_data_resolution(sc, points_mode(pts_num))
    IN  {LET g == get_points_number([m.scope EXCEPT !.points = p])
         IN  ScopeOutcome(g.scope,
                          m.log \o <<":WAV:POIN " \o IntStr(pts_num)>> \o g.log,
                          "ok", g.value)
         : p \in DevicePoints(m.scope, pts_num)}

\* get_data_pts_range(): return 1,self.get_points_number()
get_data_pts_range(sc) ==
    LET g == get_points_number(sc)
    IN  ScopeOutcome(g.scope, g.log, "ok", <<1, g.value>>)

\* Faulty variant of pts_range_result: the requested range is returned.
pts_range_result_AsRequested(sc, start, stop) ==
    ScopeOutcome(sc, <<>>, "ok", <<start, stop>>)

\* The end of set_data_pts_range: return self.get_data_pts_range()
pts_range_result(sc, start, stop) == get_data_pts_range(sc)

\* min(rng) and max(rng) of a pair.
Min(rng) == IF rng[1] <= rng[2] THEN rng[1] ELSE rng[2]
Max(rng) == IF rng[1] <= rng[2] THEN rng[2] ELSE rng[1]

\* set_data_pts_range(rng): its outcomes; rng is <<>> for None.
set_data_pts_range(sc, rng) ==
    LET q     == IF rng = <<>> THEN get_points_number(sc).log ELSE <<>>
        start == IF rng = <<>> THEN 1 ELSE Min(rng)
        stop  == IF rng = <<>> THEN get_points_number(sc).value ELSE Max(rng)
    IN  {LET r == pts_range_result(o.scope, start, stop)
         IN  ScopeOutcome(r.scope, q \o o.log \o r.log, r.status, r.value)
         : o \in set_points_number(sc, stop)}

---------------------------------------------------------------------------
(* Acquisition: grab_single and is_grabbing.                               *)

\* The progress the oscilloscope reports to :ACQ:COMP?.
Progress == {0, 50, 99, 100}

\* self.sleep(self._software_trigger_delay); self.force_trigger(), as log
\* entries; faulty variant: the trigger is forced at once.
force_after_delay_NoDelay == <<":TRIG:FORC", "sleep(_software_trigger_delay)">>
force_after_delay == <<"sleep(_software_trigger_delay)", ":TRIG:FORC">>

\* The oscilloscope's progress after the commands cmds, sent in order, from
\* progress c: :SING arms it; a forced trigger is obeyed only after the
\* settle delay and then completes the acquisition.
RECURSIVE AcqAfter(_, _, _)
AcqAfter(c, cmds, slept) ==
    IF cmds = <<>> THEN c
    ELSE IF Head(cmds) = ":SING" THEN AcqAfter(0, Tail(cmds), FALSE)
    ELSE IF Head(cmds) = "sleep(_software_trigger_delay)"
         THEN AcqAfter(c, Tail(cmds), TRUE)
    ELSE IF Head(cmds) = ":TRIG:FORC" /\ slept THEN AcqAfter(100, Tail(cmds), slept)
    ELSE AcqAfter(c, Tail(cmds), slept)

\* grab_single(wait, software_trigger): its outcomes.  wait_sync returns
\* when the acquisition is complete; without a trigger it runs into its
\* timeout.
grab_single(sc, wait, software_trigger) ==
    LET cmds == <<":SING">> \o (IF software_trigger THEN force_after_delay ELSE <<>>)
        c    == AcqAfter(sc.comp, cmds, FALSE)
        sc2  == [sc EXCEPT !.comp = c]
    IN  IF ~wait THEN {ScopeOutcome(sc2, cmds, "ok", None)}
        ELSE (IF c = 100 THEN {} ELSE
                {ScopeOutcome(sc2, cmds \o <<"wait_sync()">>, "AgilentBackendError", None)})
             \cup {ScopeOutcome([sc EXCEPT !.comp = 100], cmds \o <<"wait_sync()">>,
                                "ok", None)}

\* A Python value with its type.
PyBool(b) == [type |-> "bool", val |-> b]

\* is_grabbing(): return self.ask(":ACQ:COMP?")!="100"
is_grabbing(sc) ==
    ScopeOutcome(sc, <<":ACQ:COMP?">>, "ok", PyBool(IntStr(sc.comp) # "100"))

---------------------------------------------------------------------------
(* Points and acquisition as a state machine.                              *)

\* Point counts and range ends a caller asks for.
RequestedCounts == {-5, 0, 1, 250, 1000, 1001, 6000}
RequestedRanges ==
    {<<>>} \cup {<<a, b>> : a \in RequestedCounts, b \in RequestedCounts}

SetPointsNumber ==
    /\ call = Idle
    /\ \E n \in RequestedCounts :
         /\ call' = [name |-> "set_points_number", pts_num |-> n, before |-> scope]
         /\ \E o \in set_points_number(scope, n) : FinishScope(o)

GetDataPtsRange ==
    /\ call = Idle
    /\ call' = [name |-> "get_data_pts_range", before |-> scope]
    /\ FinishScope(get_data_pts_range(scope))

SetDataPtsRange ==
    /\ call = Idle
    /\ \E rng \in RequestedRanges :
         /\ call' = [name |-> "set_data_pts_range", rng |-> rng, before |-> scope]
         /\ \E o \in set_data_pts_range(scope, rng) : FinishScope(o)

GrabSingle ==
    /\ call = Idle
    /\ \E wait \in BOOLEAN, software_trigger \in BOOLEAN :
         /\ call' = [name |-> "grab_single", wait |-> wait,
                     software_trigger |-> software_trigger, before |-> scope]
         /\ \E o \in grab_single(scope, wait, software_trigger) : FinishScope(o)

IsGrabbing ==
    /\ call = Idle
    /\ call' = [name |-> "is_grabbing", before |-> scope]
    /\ FinishScope(is_grabbing(scope))

\* The input triggers the armed oscilloscope, or the acquisition goes on.
Acquire ==
    /\ call = Idle
    /\ scope.comp < 100
    /\ \E c \in Progress :
         /\ c > scope.comp
         /\ scope' = [scope EXCEPT !.comp = c]
    /\ UNCHANGED <<dev, coerces, call, ret, log>>

InitAcq ==
    /\ dev \in {d \in DevStates : d.form = "BYTE" /\ ~d.uns /\ d.byt = "MSBF" /\ d.src = 1}
    /\ coerces = FALSE
    /\ call = Idle
    /\ ret = NoRet
    /\ log = <<>>
    /\ scope = ScopeReset

NextAcq ==
    \/ SetPointsNumber
    \/ GetDataPtsRange
    \/ SetDataPtsRange
    \/ GrabSingle
    \/ IsGrabbing
    \/ Acquire
    \/ Return

SpecAcq == InitAcq /\ [][NextAcq]_vars

---------------------------------------------------------------------------
(* The edge trigger.  use_parameters converts an argument with the         *)
(* parameter class named for it in the decorator, and else with the class  *)
(* that has the argument's name, as the methods decorated with a bare      *)
(* use_parameters rely on.                                                 *)

\* _p_trigger_coupling=EnumParameterClass("trigger_coupling",["ac","dc","lfr"],..)
trigger_coupling_values == {"ac", "dc", "lfr"}
\* _p_coupling=EnumParameterClass("coupling",["ac","dc"],value_case="upper")
coupling_values == {"ac", "dc"}
\* _p_slope=EnumParameterClass("slope",["neg","pos","eith","alt"],..)
slope_values == {"neg", "pos", "eith", "alt"}

\* value_case="upper": the oscilloscope's token of a value, and back.
UpperTokens ==
    [ac |-> "AC", dc |-> "DC", lfr |-> "LFR", neg |-> "NEG", pos |-> "POS",
     eith |-> "EITH", alt |-> "ALT"]
Upper(v) == UpperTokens[v]
Lower(tok) == CHOOSE v \in DOMAIN UpperTokens : UpperTokens[v] = tok

\* The token of a channel of the parameter class "channel".
ChannelToken(ch) ==
    IF ch \in Channels THEN ChanStr(ch) ELSE <<"EXT", "LINE", "WGEN">>[-ch]

\* A float in tenths as it is written into a command.
FloatStr(x) ==
    IF x < 0 THEN "-" \o NatStr((-x) \div 10) \o "." \o NatStr((-x) % 10)
    ELSE NatStr(x \div 10) \o "." \o NatStr(x % 10)

\* The class that converts the argument coupling of setup_edge_trigger,
\* whose decorator names a class for source only: the class "coupling".
setup_coupling_class == coupling_values

\* _get_edge_trigger_params(): four queries, one snapshot.
get_edge_trigger_params(sc) ==
    ScopeOutcome(sc,
                 <<"TRIG:EDGE:SOUR?", "TRIG:LEVEL?", "TRIG:EDGE:COUPL?",
                   "TRIG:EDGE:SLOPE?">>,
                 "ok",
                 [source |-> sc.trig.source, level |-> sc.trig.level,
                  coupling |-> Lower(sc.trig.coupling),
                  slope |-> Lower(sc.trig.slope)])

\* setup_edge_trigger(source, level, coupling, slope)
setup_edge_trigger(sc, source, level, coupling, slope) ==
    IF ~ChannelOk(source) \/ coupling \notin setup_coupling_class
       \/ slope \notin slope_values
    THEN ScopeOutcome(sc, <<>>, "ValidationError", None)
    ELSE LET sc2 == [sc EXCEPT !.trig = [source |-> source, level |-> level,
                                         coupling |-> Upper(coupling),
                                         slope |-> Upper(slope),
                                         mode |-> "EDGE"]]
             g == get_edge_trigger_params(sc2)
         IN  ScopeOutcome(sc2,
                          <<"TRIG:EDGE:SOURCE " \o ChannelToken(source),
                            "TRIG:EDGE:COUPL " \o Upper(coupling),
                            "TRIG:EDGE:SLOPE " \o Upper(slope),
                            "TRIG:LEVEL " \o FloatStr(level),
                            "TRIG:MODE EDGE">> \o g.log,
                          g.status, g.value)

\* set_edge_trigger_coupling(coupling), with the class "trigger_coupling".
set_edge_trigger_coupling(sc, coupling) ==
    IF coupling \notin trigger_coupling_values
    THEN ScopeOutcome(sc, <<>>, "ValidationError", None)
    ELSE LET sc2 == [sc EXCEPT !.trig.coupling = Upper(coupling)]
         IN  ScopeOutcome(sc2,
                          <<"TRIG:EDGE:COUPL " \o Upper(coupling), "TRIG:EDGE:COUPL?">>,
                          "ok", Lower(sc2.trig.coupling))

\* Values a caller passes for coupling and slope: those of the data model
\* and one that is none of them.
CouplingArgs == trigger_coupling_values \cup {"hfr"}
SlopeArgs == slope_values \cup {"rise"}

SetupEdgeTrigger ==
    /\ call = Idle
    /\ \E source \in ChannelIds, level \in {0, 15}, coupling \in CouplingArgs,
          slope \in SlopeArgs :
         /\ call' = [name |-> "setup_edge_trigger", source |-> source,
                     level |-> level, coupling |-> coupling, slope |-> slope,
                     before |-> scope]
         /\ FinishScope(setup_edge_trigger(scope, source, level, coupling, slope))

SetEdgeTriggerCoupling ==
    /\ call = Idle
    /\ \E coupling \in CouplingArgs :
         /\ call' = [name |-> "set_edge_trigger_coupling", coupling |-> coupling,
                     before |-> scope]
         /\ FinishScope(set_edge_trigger_coupling(scope, coupling))

\* The trigger mode is changed at the front panel.
TriggerMenu ==
    /\ call = Idle
    /\ scope' = [scope EXCEPT !.trig.mode = IF @ = "EDGE" THEN "GLIT" ELSE "EDGE"]
    /\ UNCHANGED <<dev, coerces, call, ret, log>>

InitTrig == InitAcq

NextTrig ==
    \/ SetupEdgeTrigger
    \/ SetEdgeTriggerCoupling
    \/ TriggerMenu
    \/ Return

SpecTrig == InitTrig /\ [][NextTrig]_vars

---------------------------------------------------------------------------
(* Construction: the number of main channels, detected or specified.       *)

\* while ch<=16: the last value of ch for which a probe is sent.
MaxDetect == 16

\* ":CHAN{}:BWL?".format(ch)
BwlQuery(ch) == ":CHAN" \o NatStr(ch) \o ":BWL?"

\* _is_command_valid(":CHAN{}:BWL?".format(ch)) on a device that knows the
\* command for the channels of valid.
is_command_valid(valid, ch) == ch \in valid

\* if self._is_command_valid(..): ch+=1, else: break
detect_continue(valid, ch) == is_command_valid(valid, ch + 1)

\* The loop of _detect_main_channels_number from ch on, probes the queries
\* sent so far: the returned number and all the queries.
RECURSIVE detect_loop(_, _, _)
detect_loop(valid, ch, probes) ==
    IF ch <= MaxDetect
    THEN IF detect_continue(valid, ch)
         THEN detect_loop(valid, ch + 1, Append(probes, BwlQuery(ch + 1)))
         ELSE [n |-> ch, probes |-> Append(probes, BwlQuery(ch + 1))]
    ELSE [n |-> ch, probes |-> probes]

\* _detect_main_channels_number()
detect_main_channels_number(valid) == detect_loop(valid, 1, <<>>)

\* __init__(addr, nchannels): auto for nchannels="auto"; the outcome holds
\* the number of channels and _main_channels_idx.
init_channels(sc, valid, auto, nchannels) ==
    LET d == IF auto THEN detect_main_channels_number(valid)
             ELSE [n |-> nchannels, probes |-> <<>>]
    IN  ScopeOutcome(sc, d.probes, "ok",
                     [nchannels |-> d.n,
                      main_channels_idx |-> [k \in 1..d.n |-> k]])

\* Devices by the channels they know :CHANn:BWL? for: the channels up to
\* some number, and at most one channel more or less.
DetectDevices ==
    {((1..k) \cup a) \ r : k \in 1..(MaxDetect + 2),
                           a \in {{}} \cup {{j} : j \in 2..(MaxDetect + 2)},
                           r \in {{}} \cup {{j} : j \in 2..(MaxDetect + 2)}}

Construct ==
    /\ call = Idle
    /\ \E valid \in DetectDevices, auto \in BOOLEAN, nchannels \in {2, 4} :
         /\ call' = [name |-> "__init__", valid |-> valid, auto |-> auto,
                     nchannels |-> nchannels, before |-> scope]
         /\ FinishScope(init_channels(scope, valid, auto, nchannels))

InitDetect == InitAcq

NextDetect ==
    \/ Construct
    \/ Return

SpecDetect == InitDetect /\ [][NextDetect]_vars

---------------------------------------------------------------------------
(* Properties.                                                             *)

\* C1: a waveform returned by _read_sweep_fast has exactly as many rows as
\* the point count of the preamble in use, and a decoded payload of any
\* other length makes the call raise AgilentError instead of returning.
C1_SweepLengthIsPointCount ==
    call.name = "_read_sweep_fast" =>
      /\ ret.status = "ok" =>
           /\ ret.aux.stage = "data"
           /\ Len(ret.value) = ret.aux.wfmpre.pts
      /\ ret.aux.stage = "data" =>
           /\ call.wfmpre # <<>> => ret.aux.wfmpre = call.wfmpre[1]
           /\ Len(ret.aux.trace) # ret.aux.wfmpre.pts => ret.status = "AgilentError"
           /\ Len(ret.aux.trace) = ret.aux.wfmpre.pts => ret.status = "ok"

\* C1, reached: the payload decoded to fewer elements than the preamble's
\* point count and the call raised.
C1_Witness ==
    /\ call.name = "_read_sweep_fast"
    /\ ret.aux.stage = "data"
    /\ Len(ret.aux.trace) = 2
    /\ ret.aux.wfmpre.pts = 3
    /\ ret.status = "AgilentError"

\* C2: _build_wfmpre raises the device error for every reply of fewer than
\* 10 fields, whatever the fields hold, and sends nothing.
C2_ShortReplyRejected ==
    (call.name = "_build_wfmpre" /\ Len(call.data) < 10) =>
      /\ ret.status = "AgilentError"
      /\ log = <<>>

\* C2, reached: a reply of 9 fields was refused.
C2_Witness ==
    /\ call.name = "_build_wfmpre"
    /\ Len(call.data) = 9
    /\ ret.status = "AgilentError"

\* The number a field literally spells, in tenths, for the fields the
\* replies are made of.
Spelled(tok) ==
    CASE tok = <<"0">> -> 0
      [] tok = <<"1">> -> 10
      [] tok = <<"2">> -> 20
      [] tok = <<"3">> -> 30
      [] tok = <<"4">> -> 40
      [] tok = <<"1", "2">> -> 120
      [] tok = <<"-", "1">> -> -10
      [] tok = <<"-", "2">> -> -20
      [] tok = <<"0", ".", "5">> -> 5
      [] tok = <<"1", ".", "5">> -> 15
      [] tok = <<"-", "0", ".", "5">> -> -5

\* C3: a preamble parsed from a reply of at least 10 fields takes each entry
\* from its fixed position: format code, type code, point count, average
\* count, x-increment, x-zero, point offset, y-multiplier, y-zero, y-offset;
\* code 0 gives 1-byte binary, code 1 gives 2-byte binary, code 3 gives
\* ascii, and the type code selects NORM, PEAK, AVER, HRES.
C3_FieldsByPosition ==
    (call.name = "_build_wfmpre" /\ ret.status = "ok") =>
      LET d == call.data
          w == ret.value
      IN  /\ Len(d) >= 10
          /\ d[1] = <<"0">> => (~is_ascii(w.fmt) /\ w.fmt.size = 1)
          /\ d[1] = <<"1">> => (~is_ascii(w.fmt) /\ w.fmt.size = 2)
          /\ d[1] = <<"3">> => w.fmt = AsciiFormat
          /\ d[2] = <<"0">> => w.type = "NORM"
          /\ d[2] = <<"1">> => w.type = "PEAK"
          /\ d[2] = <<"2">> => w.type = "AVER"
          /\ d[2] = <<"3">> => w.type = "HRES"
          /\ w.pts * 10 = Spelled(d[3])
          /\ w.count * 10 = Spelled(d[4])
          /\ w.xincr = Spelled(d[5])
          /\ w.xzero = Spelled(d[6])
          /\ w.ptoff * 10 = Spelled(d[7])
          /\ w.ymult = Spelled(d[8])
          /\ w.yzero = Spelled(d[9])
          /\ w.yoff = Spelled(d[10])

\* C3, reached: the reply 1;3;3;12;0.5;-2;0;2;-0.5;1 was parsed to a 2-byte
\* binary high-resolution preamble of 3 points.
C3_Witness ==
    /\ call.name = "_build_wfmpre"
    /\ ret.status = "ok"
    /\ call.data = << <<"1">>, <<"3">>, <<"3">>, <<"1", "2">>, <<"0", ".", "5">>,
                      <<"-", "2">>, <<"0">>, <<"2">>, <<"-", "0", ".", "5">>, <<"1">> >>
    /\ ret.value.fmt.size = 2
    /\ ret.value.type = "HRES"
    /\ ret.value.xincr = 5
    /\ ret.value.xzero = -20


\* C4: _build_wfmpre is pure: it sends nothing to the oscilloscope, and the
\* preamble it returns is the same whatever state the oscilloscope is in.
C4_ParserIsPure ==
    call.name = "_build_wfmpre" =>
      /\ log = <<>>
      /\ \A d \in DevStates : build_wfmpre(d, call.data).value = ret.value

\* A reply of at least 10 fields with a field that is no number, or with a
\* format or type code outside 0..3.
C5_Malformed(d) ==
    /\ Len(d) >= 10
    /\ \/ \E k \in 1..10 : d[k] \in {<<"x">>, <<>>}
       \/ d[1] \in {<<"4">>, <<"-", "1">>}
       \/ d[2] \in {<<"4">>, <<"-", "1">>}

\* C5: a malformed reply of at least 10 fields makes _build_wfmpre raise the
\* driver's device error, and no other exception, and return no preamble.
C5_MalformedRaisesDeviceError ==
    (call.name = "_build_wfmpre" /\ C5_Malformed(call.data)) =>
      ret.status = "AgilentError"

\* C6: _scale_data returns one row per input element, in order, with
\* x[i] = (i - ptoff) * xincr + xzero, and y[i] = (raw[i] - yoff) * ymult +
\* yzero for a binary preamble, y[i] = raw[i] for an ascii one (x in tenths,
\* y in hundredths).
C6_ScalingIsAffine ==
    call.name = "_scale_data" =>
      LET w == call.wfmpre
          raw == call.data
      IN  /\ Len(ret.value) = Len(raw)
          /\ \A k \in 1..Len(raw) :
               /\ ret.value[k][1] = ((k - 1) - w.ptoff) * w.xincr + w.xzero
               /\ w.fmt.kind = "ascii" => ret.value[k][2] = 100 * raw[k]
               /\ w.fmt.kind # "ascii" =>
                    ret.value[k][2] = (10 * raw[k] - w.yoff) * w.ymult + 10 * w.yzero

\* C6, reached: with ptoff=-1, xincr=2, xzero=0.5, yoff=4, ymult=1.5,
\* yzero=3 the binary samples 1, 3 scale to (2.5, -1.5), (4.5, 1.5), and
\* the same samples under an ascii preamble keep y = 1, 3.
C6_Witness ==
    /\ call.name = "_scale_data"
    /\ call.data = <<1, 3>>
    /\ call.wfmpre.ptoff = -1 /\ call.wfmpre.xincr = 20 /\ call.wfmpre.xzero = 5
    /\ \/ /\ call.wfmpre.fmt.kind = "u"
          /\ ret.value = << <<25, -150>>, <<45, 150>> >>
       \/ /\ call.wfmpre.fmt.kind = "ascii"
          /\ ret.value = << <<25, 100>>, <<45, 300>> >>

\* The queries of the oscilloscope's data format.
FormatQueries == {":WAV:FORM?", "WAV:UNS?", ":WAV:BYT?"}

\* C7: the fast path takes the kind of read and the decoding format from the
\* preamble in use and never from the oscilloscope: it sends no format
\* query, and the oscilloscope's format at read time changes neither.
C7_FormatFromPreambleOnly ==
    call.name = "_read_sweep_fast" =>
      /\ \A k \in 1..Len(log) : log[k] \notin FormatQueries
      /\ ret.aux.stage = "data" =>
           /\ ret.aux.decode = ret.aux.wfmpre.fmt
           /\ log[Len(log)] = IF ret.aux.wfmpre.fmt.kind = "ascii"
                              THEN "read(raw)" ELSE "read_binary_array_data()"

\* C8: set_data_format refuses every binary descriptor whose kind is not
\* "i" or "u" or whose size is not 1 or 2, and has then written nothing:
\* the oscilloscope is as it was before the call.
C8_UnsupportedRefusedUntouched ==
    (/\ call.name = "set_data_format"
     /\ call.fmt.kind \notin {"ascii", "default"}
     /\ (call.fmt.kind \notin {"i", "u"} \/ call.fmt.size \notin {1, 2})) =>
      /\ ret.status = "ValueError"
      /\ log = <<>>
      /\ dev = call.before

\* C8, reached: a 4-byte signed descriptor was refused.
C8_Witness ==
    /\ call.name = "set_data_format"
    /\ call.fmt = DataFormat(4, "i", "<")
    /\ ret.status = "ValueError"
    /\ log = <<>>

\* C9: set_data_format sends its queries after all its writes and returns
\* what get_data_format() returns on the oscilloscope as the call left it.
C9_ReturnsEffectiveFormat ==
    (call.name = "set_data_format" /\ ret.status = "ok") =>
      /\ ret.value = get_data_format(dev, None)
      /\ ":WAV:FORM?" \in {log[k] : k \in 1..Len(log)}
      /\ \A i, j \in 1..Len(log) :
           (i < j /\ log[i] \in FormatQueries) => log[j] \in FormatQueries

\* C9, reached: an oscilloscope that kept an old setting, and the call
\* returned that setting, not the unsigned 2-byte descriptor asked for.
C9_Witness ==
    /\ call.name = "set_data_format"
    /\ call.fmt = DataFormat(2, "u", "<")
    /\ ret.status = "ok"
    /\ coerces
    /\ ret.value # call.fmt
    /\ ret.value = get_data_format(dev, None)

\* C10: on an oscilloscope that applies every command as written,
\* set_data_format(d) for a supported d leaves BYTE format for 1-byte
\* elements and WORD format for 2-byte elements, the unsigned flag as d's
\* kind says, ASCII format for ascii, and returns a descriptor equal to d.
C10_SelectsRequestedFormat ==
    (/\ call.name = "set_data_format"
     /\ ~coerces
     /\ call.fmt.kind \in {"ascii", "default", "i", "u"}
     /\ call.fmt.size \in {0, 1, 2}) =>
      LET d == IF call.fmt = DefaultDesc THEN DataFormat(1, "i", "<") ELSE call.fmt
      IN  /\ ret.status = "ok"
          /\ d.kind = "ascii" => (dev.form = "ASC" /\ ret.value = AsciiFormat)
          /\ d.kind # "ascii" =>
               /\ dev.form = (IF d.size = 1 THEN "BYTE" ELSE "WORD")
               /\ dev.uns = (d.kind = "u")
               /\ ret.value.size = d.size
               /\ ret.value.kind = d.kind
               /\ d.size = 2 => ret.value.byteorder = d.byteorder


\* The value get_vertical_span returns for the explicit list ids in state sc.
SpanResults(sc, ids) ==
    muxcall("get_vertical_span", sc, [kind |-> "list", ids |-> ids], None).value

\* C11: get_vertical_span("all") queries the scale of every main channel,
\* in order, and of no other channel; its result has one entry per main
\* channel, each a success carrying ten times that channel's scale, and is
\* the result of the call with the explicit list of the main channels.
C11_AllIsMainChannels ==
    (call.name = "get_vertical_span" /\ call.channel.kind = "all")
        => /\ ret.status = "ok"
           /\ log = [k \in 1..NChannels |-> ":" \o ChanStr(k) \o ":SCAL?"]
           /\ Len(ret.value) = NChannels
           /\ \A k \in 1..NChannels :
                /\ ret.value[k].channel = k
                /\ ret.value[k].ok
                /\ ret.value[k].value = call.before.scal[k] * 10
           /\ ret.value = SpanResults(call.before, main_channels_idx)

\* The call with "all" has returned from a state where the channels have
\* different scales.
C11_Witness ==
    /\ call.name = "get_vertical_span"
    /\ call.channel.kind = "all"
    /\ ret.status = "ok"
    /\ call.before.scal[1] # call.before.scal[NChannels]

\* C12: set_coupling over three channels of which only the second is
\* invalid does not raise; the coupling is written to and read from the
\* first and third channels, and the result reports success for them and
\* a captured error for the second.
C12_PartialFailureCaptured ==
    (/\ call.name = "set_coupling"
     /\ call.channel.kind = "list"
     /\ Len(call.channel.ids) = 3
     /\ InputChannelOk(call.channel.ids[1])
     /\ ~InputChannelOk(call.channel.ids[2])
     /\ InputChannelOk(call.channel.ids[3]))
        => LET ids == call.channel.ids
               first == ids[1]
               third == ids[Len(ids)]
           IN  /\ ret.status = "ok"
               /\ Len(ret.value) = Len(ids)
               /\ ret.value[1].ok /\ ret.value[Len(ids)].ok
               /\ ~ret.value[2].ok
               /\ ret.value[2].error = "ValidationError"
               /\ ret.value[1].value = call.coupling
               /\ ret.value[Len(ids)].value = call.coupling
               /\ scope.coup[first] = CouplingToken(call.coupling)
               /\ scope.coup[third] = CouplingToken(call.coupling)
               /\ log = << ":" \o ChanStr(first) \o ":COUP " \o call.coupling,
                           ":" \o ChanStr(first) \o ":COUP?",
                           ":" \o ChanStr(third) \o ":COUP " \o call.coupling,
                           ":" \o ChanStr(third) \o ":COUP?" >>

\* set_coupling("ac") over channel 1, an invalid id and channel 2 has
\* returned, from a state where channel 2 was DC-coupled.
C12_Witness ==
    /\ call.name = "set_coupling"
    /\ call.channel.kind = "list"
    /\ call.channel.ids = <<1, 0, NChannels>>
    /\ call.coupling = "ac"
    /\ call.before.coup[NChannels] = "DC"
    /\ ret.status = "ok"


\* The call is a batch read.
IsBatchRead == call.name \in {"read_multiple_sweeps", "read_sweep"}

\* C13: a call given an integer that names no channel fails with a
\* validation error, has sent nothing and leaves the oscilloscope, its
\* selected source included, as it was: select_channel,
\* read_multiple_sweeps with the id anywhere in the list, and get_wfmpre
\* with a list that holds the id.
C13_InvalidIdSendsNothing ==
    LET invalid ==
          \/ call.name = "select_channel" /\ ~ChannelOk(call.channel)
          \/ /\ call.name \in {"read_multiple_sweeps", "get_wfmpre_list"}
             /\ \E i \in 1..Len(call.channels) : ~ChannelOk(call.channels[i])
    IN  invalid => /\ ret.status = "ValidationError"
                   /\ log = <<>>
                   /\ dev = call.before.dev

\* The number of entries of sequence q that equal x.
Count(q, x) == Cardinality({i \in 1..Len(q) : q[i] = x})

\* C14: the range set_data_pts_range returns for any request, None and
\* reversed pairs included, and the range get_data_pts_range returns in any
\* state, starts at one or above, does not end before it starts, and does
\* not end beyond the point count the oscilloscope reports.
C14_PointRangeWithinCount ==
    (call.name \in {"set_data_pts_range", "get_data_pts_range"} /\ ret.status = "ok")
        => /\ 1 <= ret.value[1]
           /\ ret.value[1] <= ret.value[2]
           /\ ret.value[2] <= scope.points

\* set_data_pts_range has returned for a reversed pair that starts below
\* one and ends beyond the count the oscilloscope settled on.
C14_Witness ==
    /\ call.name = "set_data_pts_range"
    /\ call.rng # <<>>
    /\ call.rng[1] > call.rng[2]
    /\ call.rng[2] < 1
    /\ call.rng[1] > scope.points
    /\ ret.status = "ok"

\* C15: grab_single sends :SING first and once; with software_trigger it
\* sends :TRIG:FORC exactly once, after :SING and after the settle delay,
\* and without it never; with wait the wait for completion comes last, and
\* when grab_single returns the acquisition is complete.
C15_GrabSingleOrder ==
    call.name = "grab_single"
        => /\ log[1] = ":SING"
           /\ Count(log, ":SING") = 1
           /\ Count(log, ":TRIG:FORC") = IF call.software_trigger THEN 1 ELSE 0
           /\ call.software_trigger =>
                /\ log[2] = "sleep(_software_trigger_delay)"
                /\ log[3] = ":TRIG:FORC"
           /\ Count(log, "wait_sync()") = IF call.wait THEN 1 ELSE 0
           /\ call.wait =>
                /\ log[Len(log)] = "wait_sync()"
                /\ ret.status = "ok" => scope.comp = 100

\* grab_single with software trigger and wait has returned, on an
\* oscilloscope that was in the middle of an acquisition.
C15_Witness ==
    /\ call.name = "grab_single"
    /\ call.software_trigger
    /\ call.wait
    /\ call.before.comp \in {50, 99}
    /\ ret.status = "ok"

\* C16: is_grabbing returns the oscilloscope's progress as a number, 0 to
\* 99 while it records or waits and 100 when the acquisition is stopped.
C16_IsGrabbingIsCount ==
    call.name = "is_grabbing"
        => /\ ret.value.type = "int"
           /\ ret.value.val = call.before.comp

\* The writes that set the data format.
FormatWrites ==
    {":WAV:FORM ASCII", ":WAV:FORM BYTE", ":WAV:FORM WORD", ":WAV:UNS 1",
     ":WAV:UNS 0", ":WAV:BYT LSBF", ":WAV:BYT MSBF"}
IsFormatWrite(c) == c \in FormatWrites

\* The format of the preamble supplied for the first channel of the call,
\* or the default format if none was supplied.
FirstChannelFormat ==
    LET W == ZipDict(call.channels, call.wfmpres)
        first == call.channels[1]
    IN  IF first \in DOMAIN W /\ W[first] # <<>> THEN W[first][1].fmt
        ELSE default_data_fmt

\* C17: in a batch read with ensure_fmt the format-setting writes are those
\* of at most one set_data_format call, whose target is the format of the
\* first channel's supplied preamble or else the default format, and they
\* all precede every data query; without ensure_fmt there are none.
C17_FormatNegotiatedOnce ==
    (IsBatchRead /\ call.channels # <<>>
       /\ \A i \in 1..Len(call.channels) : ChannelOk(call.channels[i]))
        => LET writes == SelectSeq(log, IsFormatWrite)
           IN  /\ ~call.ensure_fmt => writes = <<>>
               /\ call.ensure_fmt =>
                    writes \in {<<>>, set_data_format_writes(FirstChannelFormat)}
               /\ \A i \in 1..Len(log), j \in 1..Len(log) :
                    (IsFormatWrite(log[i]) /\ log[j] = "WAV:DATA?") => i < j

\* A batch over two channels with different supplied preambles and
\* ensure_fmt has set the format and read both channels.
C17_Witness ==
    /\ call.name = "read_multiple_sweeps"
    /\ call.ensure_fmt
    /\ Len(call.channels) = 2
    /\ call.channels[1] # call.channels[2]
    /\ Len(call.wfmpres) = 2
    /\ call.wfmpres[1] # <<>> /\ call.wfmpres[2] # <<>>
    /\ call.wfmpres[1] # call.wfmpres[2]
    /\ SelectSeq(log, IsFormatWrite) # <<>>
    /\ ret.status = "ok"

\* C18: during one read_multiple_sweeps call the channel-select command of
\* a channel is written at most once for each time the channel is read.
C18_SelectOncePerRead ==
    call.name = "read_multiple_sweeps"
        => \A c \in Channels :
             Count(log, SelectCmd(c)) <= Count(call.channels, c)

\* The position in the log of the k-th data query.
DataQueryAt(k) ==
    CHOOSE j \in 1..Len(log) :
      /\ log[j] = "WAV:DATA?"
      /\ Cardinality({i \in 1..j : log[i] = "WAV:DATA?"}) = k

\* The last channel-select command written before position j of the log.
LastSelectBefore(j) ==
    LET at == {i \in 1..(j - 1) : log[i] \in {SelectCmd(c) : c \in Channels}}
    IN  log[CHOOSE i \in at : \A m \in at : m <= i]

\* C19: in a batch read the k-th data query is for the k-th channel of the
\* caller's list: it is issued while that channel is the selected source,
\* the last channel-select before it is that channel's, and on success
\* the k-th waveform returned is the scaled payload of that query.
C19_QueryOnAttributedChannel ==
    IsBatchRead
        => LET reads == ret.aux.reads
           IN  /\ Len(reads) <= Len(call.channels)
               /\ Count(log, "WAV:DATA?") = Len(reads)
               /\ \A k \in 1..Len(reads) :
                    /\ reads[k].channel = call.channels[k]
                    /\ reads[k].src = call.channels[k]
                    /\ LastSelectBefore(DataQueryAt(k)) = SelectCmd(call.channels[k])
               /\ ret.status = "ok" =>
                    /\ Len(reads) = Len(call.channels)
                    /\ \A k \in 1..Len(reads) :
                         scale_data(reads[k].trace, reads[k].wfmpre)
                           = IF call.name = "read_sweep" THEN ret.value
                             ELSE IF call.return_wfmpres THEN ret.value[1][k]
                             ELSE ret.value[k]

\* A batch over two different channels has read both, starting with the
\* channel that was not selected before.
C19_Witness ==
    /\ call.name = "read_multiple_sweeps"
    /\ Len(call.channels) = 2
    /\ call.channels[1] # call.channels[2]
    /\ call.channels[1] # call.before.dev.src
    /\ ret.status = "ok"
    /\ Len(ret.aux.reads) = 2

\* The display-enable command and query of every channel.
DispCommands ==
    UNION {{DispQuery(c), DispOn(c), DispOff(c)} : c \in Channels}

\* C20: read_sweep, read_multiple_sweeps and _read_sweep_fast send no
\* display-enable command and no display-enable query, and leave the
\* display state of every channel as it was.
C20_ReadsLeaveDisplayAlone ==
    (IsBatchRead \/ call.name = "_read_sweep_fast")
        => /\ \A i \in 1..Len(log) : log[i] \notin DispCommands
           /\ scope = call.before.scope

\* A batch has fetched the preamble of the first channel, whose display is
\* off, and read it.
C20_Witness ==
    /\ call.name = "read_multiple_sweeps"
    /\ call.channels = <<1>>
    /\ call.wfmpres = <<>>
    /\ ~call.before.scope.disp[1]
    /\ ret.status = "ok"


\* The preamble the caller supplied for the k-th channel of the call: <<>>
\* if none (absent from the mapping, or None), else <<p>>.
Supplied(k) ==
    LET W == ZipDict(call.channels, call.wfmpres)
    IN  IF call.channels[k] \in DOMAIN W THEN W[call.channels[k]] ELSE <<>>

\* The channels of the call are valid and no channel is listed twice.
DistinctChannels ==
    /\ \A i \in 1..Len(call.channels) : InputChannelOk(call.channels[i])
    /\ \A i \in 1..Len(call.channels), j \in 1..Len(call.channels) :
         call.channels[i] = call.channels[j] => i = j

LastReadFailed ==
    /\ call.name = "read_multiple_sweeps"
    /\ ret.aux.reads # <<>>
    /\ ret.aux.reads[Len(ret.aux.reads)].status # "ok"

\* C22: when the data read of the k-th channel of read_multiple_sweeps
\* fails, the call raises that read's error; the failed read is the last
\* thing sent, so nothing is sent again and nothing is sent for the
\* channels after k; every data query so far was sent once, for channels
\* 1..k in order; and no list of waveforms is returned.
C22_BatchFailsFast ==
    LastReadFailed
        => LET reads == ret.aux.reads
               k == Len(reads)
           IN  /\ ret.status = reads[k].status
               /\ ret.status \in {"AgilentError", "AgilentBackendError"}
               /\ Len(log) >= 2
               /\ log[Len(log) - 1] = "WAV:DATA?"
               /\ log[Len(log)] = ReadCall(reads[k].wfmpre)
               /\ Count(log, "WAV:DATA?") = k
               /\ \A j \in 1..k : reads[j].channel = call.channels[j]
               /\ \A j \in 1..(k - 1) : reads[j].status = "ok"
               /\ ret.value = None

\* The first read of a batch over two channels has timed out.
C22_Witness ==
    /\ LastReadFailed
    /\ Len(call.channels) = 2
    /\ Len(ret.aux.reads) = 1
    /\ ret.status = "AgilentBackendError"


\* C23: the preamble mapping read_multiple_sweeps returns with
\* return_wfmpres holds for every channel of the batch the preamble its
\* waveform was decoded and scaled with, and no missing or None entry.
C23_ReturnedPreamblesAreUsedOnes ==
    (call.name = "read_multiple_sweeps" /\ call.channels # <<>>
       /\ call.return_wfmpres /\ ret.status = "ok")
        => LET returned == ret.value[2]
               reads == ret.aux.reads
           IN  \A k \in 1..Len(call.channels) :
                 /\ call.channels[k] \in DOMAIN returned
                 /\ returned[call.channels[k]] # <<>>
                 /\ returned[call.channels[k]][1] = reads[k].wfmpre


\* The writes that set the byte order.
IsByteOrderWrite(c) == c \in {":WAV:BYT LSBF", ":WAV:BYT MSBF"}

\* C24: set_data_format for a two-byte binary format writes :WAV:BYT LSBF
\* for a little-endian request ('<') and :WAV:BYT MSBF for a big-endian
\* one ('>'); get_data_format returns little-endian for an oscilloscope
\* that sends LSBF and big-endian for one that sends MSBF.
C24_ByteOrderMatches ==
    /\ (call.name = "set_data_format" /\ call.fmt.size = 2
          /\ call.fmt.kind \in {"i", "u"} /\ ret.status = "ok")
         => LET tokens == SelectSeq(log, IsByteOrderWrite)
            IN  tokens = IF call.fmt.byteorder = "<" THEN <<":WAV:BYT LSBF">>
                         ELSE <<":WAV:BYT MSBF">>
    /\ (call.name = "get_data_format" /\ ~is_ascii(ret.value))
         => ret.value.byteorder = IF dev.byt = "LSBF" THEN "<" ELSE ">"


\* C25: setup_edge_trigger with a valid source accepts a coupling exactly
\* if it is ac, dc or lfr, the couplings set_edge_trigger_coupling
\* accepts, and a slope exactly if it is neg, pos, eith or alt; an accepted
\* call writes source, coupling, slope, level and the mode EDGE, in this
\* order, and then reads the snapshot back with four queries.
C25_EdgeTriggerAcceptsDataModel ==
    /\ (call.name = "setup_edge_trigger" /\ ChannelOk(call.source))
         => /\ ret.status = "ok" <=> (/\ call.coupling \in {"ac", "dc", "lfr"}
                                      /\ call.slope \in {"neg", "pos", "eith", "alt"})
            /\ ret.status = "ok" =>
                 /\ log = <<"TRIG:EDGE:SOURCE " \o ChannelToken(call.source),
                            "TRIG:EDGE:COUPL " \o Upper(call.coupling),
                            "TRIG:EDGE:SLOPE " \o Upper(call.slope),
                            "TRIG:LEVEL " \o FloatStr(call.level),
                            "TRIG:MODE EDGE",
                            "TRIG:EDGE:SOUR?", "TRIG:LEVEL?", "TRIG:EDGE:COUPL?",
                            "TRIG:EDGE:SLOPE?">>
                 /\ ret.value = [source |-> call.source, level |-> call.level,
                                 coupling |-> call.coupling, slope |-> call.slope]
    /\ call.name = "set_edge_trigger_coupling"
         => (ret.status = "ok" <=> call.coupling \in {"ac", "dc", "lfr"})

\* C26: channel detection sends at most 16 validity probes and returns a
\* number n of channels from 1 to 16 such that the device reported the
\* channels 2..n valid; the main channel ids are exactly 1..n.
C26_DetectionBounded ==
    (call.name = "__init__" /\ call.auto)
        => /\ Len(log) <= 16
           /\ ret.value.nchannels \in 1..16
           /\ \A c \in 2..ret.value.nchannels : c \in call.valid
           /\ ret.value.main_channels_idx
                = [k \in 1..ret.value.nchannels |-> k]

====
